---- MODULE Spec2Model ----
(***************************************************************************)
(* A model of the three utilities of the stock price monitor client:       *)
(*   - utils/retry.py   retry_with_exponential_backoff (decorator)         *)
(*   - config.py        Config (environment-backed settings) and validate  *)
(*   - utils/logger.py  setup_logger (logger factory)                      *)
(* Python strings whose content the code inspects (environment values) are *)
(* sequences of one-character strings; other strings are TLA+ strings.     *)
(***************************************************************************)
EXTENDS Integers, Sequences, FiniteSets, TLC

VARIABLES
    \* ---- utils/retry.py ----
    max_retries,    \* decorator argument
    base_delay,     \* decorator argument
    max_delay,      \* decorator argument
    pc,             \* per call: position of the wrapper
    retries,        \* per call: the local counter of wrapper
    args,           \* per call: the arguments the caller supplied
    received,       \* per call: the arguments of each invocation of func, in order
    slept,          \* per call: the durations passed to time.sleep, in order
    warned,         \* per call: the warnings logged, in order
    lastError,      \* per call: the exception bound to e by the last except
    lastReturn,     \* per call: the value func returned
    events,         \* per call: what the wrapper did, in order
    outcome,        \* per call: how the call ended
    \* ---- config.py ----
    env,            \* the process environment after load_dotenv()
    Config,         \* the attributes of class Config (or the import failure)
    validated,      \* the outcome of each Config.validate() call, in order
    \* ---- utils/logger.py ----
    level,          \* per logger name: Logger.level
    handlers,       \* per logger name: Logger.handlers
    setupCalls,     \* the setup_logger calls made so far, in order
    before,         \* the logger of the last setup_logger call, as it was before the call
    setup,          \* per thread: the position and arguments of its setup_logger call
    lastEmit        \* the last log call: the lines it wrote per destination, and after
                    \* how many setup_logger calls that returned it was made

retryVars == <<max_retries, base_delay, max_delay, pc, retries, args, received,
               slept, warned, lastError, lastReturn, events, outcome>>
configVars == <<env, Config, validated>>
loggerVars == <<level, handlers, setupCalls, before, setup, lastEmit>>
vars == <<retryVars, configVars, loggerVars>>

None == "None"

Min(a, b) == IF a <= b THEN a ELSE b

(***************************************************************************)
(*                            utils/retry.py                               *)
(***************************************************************************)

\* Bounds of the decorator arguments drawn in Init.
MaxRetriesBound == 5
MaxBaseDelay == 2
MaxDelayBound == 10

\* The threads that may call the wrapped function; MainThread is the caller
\* of the single-threaded specification.
Threads == {"t1", "t2"}
MainThread == "t1"

\* The wrapped operation: its name, the argument tuples a caller may supply,
\* the values it may return and the errors it may raise.
FuncName == "fetch_data"
ArgValues == {"a1", "a2"}
ReturnValues == {"v1", "v2"}
Errors == {"e1", "e2"}

RECURSIVE Pow2(_)
Pow2(n) == IF n <= 0 THEN 1 ELSE 2 * Pow2(n - 1)

\* Mutants of Delay: the doubling starts one attempt late; the cap is lost.
DelayFromOne(n) == Min(base_delay * Pow2(n + 1), max_delay)
DelayUncapped(n) == base_delay * Pow2(n)

\* min(base_delay * (2 ** retries), max_delay)
Delay(n) == Min(base_delay * Pow2(n), max_delay)

\* f"Retrying {func.__name__} due to error: {e}"
WarningMessage(e) == <<"Retrying ", FuncName, " due to error: ", e>>

\* Mutant of FinalException: the message gives a count one above max_retries.
FinalExceptionWrongCount ==
    [type |-> "Exception",
     message |-> <<"Function ", FuncName, " failed after ", ToString(max_retries + 1), " retries.">>,
     context |-> None]

\* Exception(f"Function {func.__name__} failed after {max_retries} retries.")
\* The raise statement stands after the while loop, outside every except
\* block, so the new exception has no __context__ and no __cause__.
FinalException ==
    [type |-> "Exception",
     message |-> <<"Function ", FuncName, " failed after ", ToString(max_retries), " retries.">>,
     context |-> None]

InitRetry ==
    /\ max_retries \in -1 .. MaxRetriesBound
    /\ base_delay \in 0 .. MaxBaseDelay
    /\ max_delay \in 0 .. MaxDelayBound
    /\ pc = [t \in Threads |-> "idle"]
    /\ retries = [t \in Threads |-> 0]
    /\ args = [t \in Threads |-> None]
    /\ received = [t \in Threads |-> <<>>]
    /\ slept = [t \in Threads |-> <<>>]
    /\ warned = [t \in Threads |-> <<>>]
    /\ lastError = [t \in Threads |-> None]
    /\ lastReturn = [t \in Threads |-> None]
    /\ events = [t \in Threads |-> <<>>]
    /\ outcome = [t \in Threads |-> [kind |-> "running"]]

\* Bounds of the decorator arguments when two threads call the wrapped function.
MaxRetriesThreads == 2
MaxDelayThreads == 3

InitRetryThreads ==
    /\ max_retries \in -1 .. MaxRetriesThreads
    /\ base_delay \in 1 .. MaxBaseDelay
    /\ max_delay \in 1 .. MaxDelayThreads
    /\ pc = [t \in Threads |-> "idle"]
    /\ retries = [t \in Threads |-> 0]
    /\ args = [t \in Threads |-> None]
    /\ received = [t \in Threads |-> <<>>]
    /\ slept = [t \in Threads |-> <<>>]
    /\ warned = [t \in Threads |-> <<>>]
    /\ lastError = [t \in Threads |-> None]
    /\ lastReturn = [t \in Threads |-> None]
    /\ events = [t \in Threads |-> <<>>]
    /\ outcome = [t \in Threads |-> [kind |-> "running"]]

\* wrapper(*args, **kwargs) is entered: retries = 0
Enter(t) ==
    /\ pc[t] = "idle"
    /\ \E a \in ArgValues : args' = [args EXCEPT ![t] = a]
    /\ retries' = [retries EXCEPT ![t] = 0]
    /\ pc' = [pc EXCEPT ![t] = "while"]
    /\ UNCHANGED <<max_retries, base_delay, max_delay, received, slept, warned,
                   lastError, lastReturn, events, outcome>>

\* Mutant of LoopTest: the loop runs until the counter equals max_retries.
LoopTestNotEqual(t) ==
    /\ pc[t] = "while"
    /\ retries[t] # max_retries
    /\ pc' = [pc EXCEPT ![t] = "try"]
    /\ UNCHANGED <<max_retries, base_delay, max_delay, retries, args, received,
                   slept, warned, lastError, lastReturn, events, outcome>>

\* while retries < max_retries: the test succeeds, the try block is entered
LoopTest(t) ==
    /\ pc[t] = "while"
    /\ retries[t] < max_retries
    /\ pc' = [pc EXCEPT ![t] = "try"]
    /\ UNCHANGED <<max_retries, base_delay, max_delay, retries, args, received,
                   slept, warned, lastError, lastReturn, events, outcome>>

\* Mutant of FuncReturns: the result is not returned and the loop goes on.
FuncReturnsNoReturn(t) ==
    /\ pc[t] = "try"
    /\ \E v \in ReturnValues : lastReturn' = [lastReturn EXCEPT ![t] = v]
    /\ received' = [received EXCEPT ![t] = Append(@, args[t])]
    /\ events' = [events EXCEPT ![t] = Append(@, "ok")]
    /\ pc' = [pc EXCEPT ![t] = "while"]
    /\ UNCHANGED <<max_retries, base_delay, max_delay, retries, args, slept,
                   warned, lastError, outcome>>

\* return func(*args, **kwargs): func returns v
FuncReturns(t) ==
    /\ pc[t] = "try"
    /\ \E v \in ReturnValues :
          /\ lastReturn' = [lastReturn EXCEPT ![t] = v]
          /\ outcome' = [outcome EXCEPT ![t] = [kind |-> "returned", value |-> v]]
    /\ received' = [received EXCEPT ![t] = Append(@, args[t])]
    /\ events' = [events EXCEPT ![t] = Append(@, "ok")]
    /\ pc' = [pc EXCEPT ![t] = "SUCCEEDED"]
    /\ UNCHANGED <<max_retries, base_delay, max_delay, retries, args, slept,
                   warned, lastError>>

\* return func(*args, **kwargs): func raises e, caught by except Exception as e
FuncRaises(t) ==
    /\ pc[t] = "try"
    /\ \E e \in Errors : lastError' = [lastError EXCEPT ![t] = e]
    /\ received' = [received EXCEPT ![t] = Append(@, args[t])]
    /\ events' = [events EXCEPT ![t] = Append(@, "fail")]
    /\ pc' = [pc EXCEPT ![t] = "except"]
    /\ UNCHANGED <<max_retries, base_delay, max_delay, retries, args, slept,
                   warned, lastReturn, outcome>>

\* logger.warning(f"Retrying {func.__name__} due to error: {e}")
Warn(t) ==
    /\ pc[t] = "except"
    /\ warned' = [warned EXCEPT ![t] = Append(@, WarningMessage(lastError[t]))]
    /\ events' = [events EXCEPT ![t] = Append(@, "warn")]
    /\ pc' = [pc EXCEPT ![t] = "sleep"]
    /\ UNCHANGED <<max_retries, base_delay, max_delay, retries, args, received,
                   slept, lastError, lastReturn, outcome>>

\* Mutant of Sleep: the counter is one variable shared by all the calls.
SleepSharedCounter(t) ==
    /\ pc[t] = "sleep"
    /\ slept' = [slept EXCEPT ![t] = Append(@, Delay(retries[t]))]
    /\ events' = [events EXCEPT ![t] = Append(@, "sleep")]
    /\ retries' = [u \in Threads |-> retries[u] + 1]
    /\ pc' = [pc EXCEPT ![t] = "while"]
    /\ UNCHANGED <<max_retries, base_delay, max_delay, args, received, warned,
                   lastError, lastReturn, outcome>>

\* Mutant of Sleep: the counter is not incremented.
SleepNoIncrement(t) ==
    /\ pc[t] = "sleep"
    /\ slept' = [slept EXCEPT ![t] = Append(@, Delay(retries[t]))]
    /\ events' = [events EXCEPT ![t] = Append(@, "sleep")]
    /\ pc' = [pc EXCEPT ![t] = "while"]
    /\ UNCHANGED <<max_retries, base_delay, max_delay, retries, args, received, warned,
                   lastError, lastReturn, outcome>>

\* time.sleep(min(base_delay * (2 ** retries), max_delay)); retries += 1
Sleep(t) ==
    /\ pc[t] = "sleep"
    /\ slept' = [slept EXCEPT ![t] = Append(@, Delay(retries[t]))]
    /\ events' = [events EXCEPT ![t] = Append(@, "sleep")]
    /\ retries' = [retries EXCEPT ![t] = @ + 1]
    /\ pc' = [pc EXCEPT ![t] = "while"]
    /\ UNCHANGED <<max_retries, base_delay, max_delay, args, received, warned,
                   lastError, lastReturn, outcome>>

\* the while test fails: raise Exception(f"Function ... failed after ... retries.")
RaiseFinal(t) ==
    /\ pc[t] = "while"
    /\ ~(retries[t] < max_retries)
    /\ outcome' = [outcome EXCEPT ![t] = [kind |-> "raised", exception |-> FinalException]]
    /\ events' = [events EXCEPT ![t] = Append(@, "raise")]
    /\ pc' = [pc EXCEPT ![t] = "FAILED"]
    /\ UNCHANGED <<max_retries, base_delay, max_delay, retries, args, received,
                   slept, warned, lastError, lastReturn>>

(***************************************************************************)
(*                               config.py                                 *)
(***************************************************************************)

\* How many times validate() is called in one run of the process.
MaxValidateCalls == 2

\* The defaults of os.getenv in the body of class Config.
DefaultApiKey ==
    <<"y", "o", "u", "r", "_", "d", "e", "f", "a", "u", "l", "t", "_", "a", "p", "i", "_", "k", "e", "y">>
DefaultBaseUrl ==
    <<"h", "t", "t", "p", "s", ":", "/", "/", "w", "w", "w", ".", "a", "l", "p", "h", "a", "v",
      "a", "n", "t", "a", "g", "e", ".", "c", "o", "/", "q", "u", "e", "r", "y">>
DefaultStockSymbols ==
    <<"A", "A", "P", "L", ",", "G", "O", "O", "G", "L", ",", "M", "S", "F", "T", ",",
      "A", "M", "Z", "N", ",", "T", "S", "L", "A">>
DefaultServerUrl ==
    <<"h", "t", "t", "p", ":", "/", "/", "l", "o", "c", "a", "l", "h", "o", "s", "t", ":",
      "8", "0", "0", "0", "/", "a", "p", "i", "/", "v", "1", "/", "s", "t", "o", "c", "k", "s">>
DefaultLogLevel == <<"I", "N", "F", "O">>
DefaultRetryCount == 3
DefaultRetryDelay == 5
DefaultPollInterval == 60

\* The values each environment variable may hold when it is set.
Unset == <<"<unset>">>
TextChoices == {<<>>, <<"k">>}
SymbolChoices == {<<>>, <<"A">>, <<"A", ",", "B">>, <<",">>}
RetryCountChoices == {<<"-", "1">>, <<"0">>, <<"3">>, <<"x">>}
RetryDelayChoices == {<<"-", "1">>, <<"0">>, <<"5">>}
PollIntervalChoices == {<<"-", "1">>, <<"0">>, <<"6", "0">>, <<>>}
EnvChoices ==
    [ALPHA_VANTAGE_API_KEY : TextChoices \cup {Unset},
     ALPHA_VANTAGE_BASE_URL : {<<"b">>, Unset},
     STOCK_SYMBOLS : SymbolChoices \cup {Unset},
     SERVER_URL : TextChoices \cup {Unset},
     LOG_LEVEL : {<<"D", "E", "B", "U", "G">>, Unset},
     RETRY_COUNT : RetryCountChoices \cup {Unset},
     RETRY_DELAY : RetryDelayChoices \cup {Unset},
     POLL_INTERVAL : PollIntervalChoices \cup {Unset}]

\* os.getenv(name, default)
Getenv(e, name, default) == IF name \in DOMAIN e THEN e[name] ELSE default

\* str.split(","): the pieces between the commas; never an empty list
RECURSIVE Split(_)
Split(s) ==
    IF \A i \in 1 .. Len(s) : s[i] # ","
    THEN <<s>>
    ELSE LET i == CHOOSE j \in 1 .. Len(s) :
                      s[j] = "," /\ \A k \in 1 .. (j - 1) : s[k] # ","
         IN  <<SubSeq(s, 1, i - 1)>> \o Split(SubSeq(s, i + 1, Len(s)))

Digits == {"0", "1", "2", "3", "4", "5", "6", "7", "8", "9"}
DigitValue(c) ==
    CASE c = "0" -> 0 [] c = "1" -> 1 [] c = "2" -> 2 [] c = "3" -> 3 [] c = "4" -> 4
      [] c = "5" -> 5 [] c = "6" -> 6 [] c = "7" -> 7 [] c = "8" -> 8 [] c = "9" -> 9

RECURSIVE DigitsValue(_)
DigitsValue(s) ==
    IF Len(s) = 0 THEN 0
    ELSE 10 * DigitsValue(SubSeq(s, 1, Len(s) - 1)) + DigitValue(s[Len(s)])

\* int(s) for a string s: an optional sign and decimal digits, ValueError otherwise
ParseInt(s) ==
    LET signed == Len(s) > 0 /\ s[1] \in {"-", "+"}
        body == IF signed THEN SubSeq(s, 2, Len(s)) ELSE s
    IN  IF Len(body) > 0 /\ \A i \in 1 .. Len(body) : body[i] \in Digits
        THEN [ok |-> TRUE,
              value |-> IF signed /\ s[1] = "-" THEN 0 - DigitsValue(body) ELSE DigitsValue(body)]
        ELSE [ok |-> FALSE, value |-> 0]

\* int(os.getenv(name, default)) with an integer default
IntSetting(e, name, default) ==
    IF name \in DOMAIN e THEN ParseInt(e[name]) ELSE [ok |-> TRUE, value |-> default]

\* The body of class Config, run once at import; an int() that raises
\* ValueError ends the import and leaves no class.
LoadConfig(e) ==
    LET count == IntSetting(e, "RETRY_COUNT", DefaultRetryCount)
        delay == IntSetting(e, "RETRY_DELAY", DefaultRetryDelay)
        poll == IntSetting(e, "POLL_INTERVAL", DefaultPollInterval)
    IN  IF count.ok /\ delay.ok /\ poll.ok
        THEN [loaded |-> TRUE,
              ALPHA_VANTAGE_API_KEY |-> Getenv(e, "ALPHA_VANTAGE_API_KEY", DefaultApiKey),
              ALPHA_VANTAGE_BASE_URL |-> Getenv(e, "ALPHA_VANTAGE_BASE_URL", DefaultBaseUrl),
              STOCK_SYMBOLS |-> Split(Getenv(e, "STOCK_SYMBOLS", DefaultStockSymbols)),
              SERVER_URL |-> Getenv(e, "SERVER_URL", DefaultServerUrl),
              LOG_LEVEL |-> Getenv(e, "LOG_LEVEL", DefaultLogLevel),
              RETRY_COUNT |-> count.value,
              RETRY_DELAY |-> delay.value,
              POLL_INTERVAL |-> poll.value]
        ELSE [loaded |-> FALSE]

\* raise ValueError(f"{setting}{text}")
ValueError(setting, text) == [raised |-> "ValueError", message |-> <<setting, text>>]
Returned == [raised |-> None, message |-> <<>>]

NotSet == " is not set in the environment variables."

\* Mutant of ValidateOutcome: a poll interval of zero is let through.
ValidateOutcomeLax(c) ==
    IF Len(c.ALPHA_VANTAGE_API_KEY) = 0 THEN ValueError("ALPHA_VANTAGE_API_KEY", NotSet)
    ELSE IF Len(c.STOCK_SYMBOLS) = 0 THEN ValueError("STOCK_SYMBOLS", NotSet)
    ELSE IF Len(c.SERVER_URL) = 0 THEN ValueError("SERVER_URL", NotSet)
    ELSE IF c.RETRY_COUNT < 0 THEN ValueError("RETRY_COUNT", " must be a non-negative integer.")
    ELSE IF c.RETRY_DELAY < 0 THEN ValueError("RETRY_DELAY", " must be a non-negative integer.")
    ELSE IF c.POLL_INTERVAL < 0 THEN ValueError("POLL_INTERVAL", " must be a positive integer.")
    ELSE Returned

\* The outcome of Config.validate() on the attributes c: the first failed test raises.
\* `not x` is true of the empty string and of the empty list.
ValidateOutcome(c) ==
    IF Len(c.ALPHA_VANTAGE_API_KEY) = 0 THEN ValueError("ALPHA_VANTAGE_API_KEY", NotSet)
    ELSE IF Len(c.STOCK_SYMBOLS) = 0 THEN ValueError("STOCK_SYMBOLS", NotSet)
    ELSE IF Len(c.SERVER_URL) = 0 THEN ValueError("SERVER_URL", NotSet)
    ELSE IF c.RETRY_COUNT < 0 THEN ValueError("RETRY_COUNT", " must be a non-negative integer.")
    ELSE IF c.RETRY_DELAY < 0 THEN ValueError("RETRY_DELAY", " must be a non-negative integer.")
    ELSE IF c.POLL_INTERVAL <= 0 THEN ValueError("POLL_INTERVAL", " must be a positive integer.")
    ELSE Returned

InitConfig ==
    /\ \E c \in EnvChoices :
          env = [n \in {m \in DOMAIN c : c[m] # Unset} |-> c[n]]
    /\ Config = LoadConfig(env)
    /\ validated = <<>>

\* Mutant of Validate: a negative RETRY_COUNT is reported and reset to zero.
ValidateRepairing ==
    /\ Config.loaded
    /\ Len(validated) < MaxValidateCalls
    /\ validated' = Append(validated, ValidateOutcome(Config))
    /\ Config' = IF Config.RETRY_COUNT < 0 THEN [Config EXCEPT !.RETRY_COUNT = 0] ELSE Config
    /\ UNCHANGED env

\* Config.validate()
Validate ==
    /\ Config.loaded
    /\ Len(validated) < MaxValidateCalls
    /\ validated' = Append(validated, ValidateOutcome(Config))
    /\ UNCHANGED <<env, Config>>

(***************************************************************************)
(*                            utils/logger.py                              *)
(***************************************************************************)

\* How many setup_logger calls one run of the process makes.
MaxSetupCalls == 2

\* Logger names are the sequences of their dot-separated components; the
\* empty name is the root logger (logging.getLogger("") returns it).
Root == <<>>
LoggerNames == {Root, <<"X">>, <<"X", "Y">>}
LogFiles == {"app.log", "b.log"}
Stderr == "<stderr>"
Destinations == LogFiles \cup {Stderr}
LevelArgs == {"DEBUG", "INFO", "verbose"}
LogMethods == {"DEBUG", "INFO", "ERROR"}

\* logging._nameToLevel
LevelNames == {"NOTSET", "DEBUG", "INFO", "WARNING", "ERROR", "CRITICAL"}
LevelNo(l) ==
    CASE l = "NOTSET" -> 0 [] l = "DEBUG" -> 10 [] l = "INFO" -> 20
      [] l = "WARNING" -> 30 [] l = "ERROR" -> 40 [] l = "CRITICAL" -> 50

Format == "%(asctime)s - %(name)s - %(levelname)s - %(message)s"

\* logging.FileHandler(log_file) after setLevel(level) and setFormatter(formatter)
FileHandler(log_file, lvl) ==
    [kind |-> "FileHandler", filename |-> log_file, level |-> LevelNo(lvl), formatter |-> Format]

\* logging.StreamHandler() after setLevel(level) and setFormatter(formatter)
StreamHandler(lvl) ==
    [kind |-> "StreamHandler", filename |-> Stderr, level |-> LevelNo(lvl), formatter |-> Format]

\* Logger.parent: the logger of the name one component shorter (a logger
\* never created has no handlers, level NOTSET and propagates, so walking
\* through it is walking past it).
Parent(name) == SubSeq(name, 1, Len(name) - 1)

\* Logger.hasHandlers(): this logger or one of its ancestors has a handler
\* (propagate is True on every logger: nothing in the repository clears it).
RECURSIVE HasHandlers(_, _)
HasHandlers(h, name) ==
    \/ h[name] # <<>>
    \/ name # Root /\ HasHandlers(h, Parent(name))

\* Logger.getEffectiveLevel(): the first level that is not NOTSET, upwards
RECURSIVE EffectiveLevel(_, _)
EffectiveLevel(l, name) ==
    IF l[name] # 0 THEN l[name]
    ELSE IF name = Root THEN 0
    ELSE EffectiveLevel(l, Parent(name))

\* Logger.callHandlers: the handlers of this logger and of its ancestors
RECURSIVE HandlersReached(_, _)
HandlersReached(h, name) ==
    IF name = Root THEN h[Root] ELSE h[name] \o HandlersReached(h, Parent(name))

\* logger.setLevel(level), line 18: runs on every call, before the handler test
SetLevel(l, name, lvl) == [l EXCEPT ![name] = LevelNo(lvl)]

\* Mutant of AttachHandlers: the handlers are added on every call.
AttachHandlersAlways(h, name, log_file, lvl) ==
    [h EXCEPT ![name] = Append(Append(@, FileHandler(log_file, lvl)), StreamHandler(lvl))]

\* lines 21-39: the two handlers are added unless hasHandlers() is true
AttachHandlers(h, name, log_file, lvl) ==
    IF ~HasHandlers(h, name)
    THEN [h EXCEPT ![name] = Append(Append(@, FileHandler(log_file, lvl)), StreamHandler(lvl))]
    ELSE h

\* What a record of level levelno logged on the logger name writes: one line
\* per handler reached whose level admits it; with no handler at all,
\* logging.lastResort (stderr, WARNING) takes it.
Emit(l, h, name, levelno) ==
    LET hs == HandlersReached(h, name)
        enabled == levelno >= EffectiveLevel(l, name)
        written(d) ==
            IF ~enabled THEN 0
            ELSE IF hs = <<>> THEN (IF d = Stderr /\ levelno >= 30 THEN 1 ELSE 0)
            ELSE Cardinality({i \in 1 .. Len(hs) :
                                 hs[i].filename = d /\ levelno >= hs[i].level})
    IN  [logged |-> TRUE, logger |-> name, levelno |-> levelno, enabled |-> enabled,
         after |-> Len(SelectSeq(setupCalls, LAMBDA c : c.raised = None)),
         lines |-> [d \in Destinations |-> written(d)]]

InitLogger ==
    /\ level = [n \in LoggerNames |-> IF n = Root THEN 30 ELSE 0]
    /\ handlers = [n \in LoggerNames |-> <<>>]
    /\ setupCalls = <<>>
    /\ before = [name |-> Root, level |-> 30, handlers |-> <<>>]
    /\ setup = [t \in Threads |-> [pc |-> "idle"]]
    /\ lastEmit = [logged |-> FALSE, logger |-> Root, levelno |-> 0, enabled |-> FALSE,
                   after |-> 0, lines |-> [d \in Destinations |-> 0]]

\* setup_logger(name, log_file, level) with a level name logging knows
SetupLogger ==
    /\ Len(setupCalls) < MaxSetupCalls
    /\ \E name \in LoggerNames, log_file \in LogFiles, lvl \in LevelArgs \cap LevelNames :
          /\ level' = SetLevel(level, name, lvl)
          /\ handlers' = AttachHandlers(handlers, name, log_file, lvl)
          /\ before' = [name |-> name, level |-> level[name], handlers |-> handlers[name]]
          /\ setupCalls' = Append(setupCalls,
                 [name |-> name, log_file |-> log_file, level |-> lvl, raised |-> None])
    /\ UNCHANGED <<setup, lastEmit>>

\* setup_logger(name, log_file, level) with an unknown level name:
\* logger.setLevel raises ValueError at line 18 and nothing is changed
SetupLoggerBadLevel ==
    /\ Len(setupCalls) < MaxSetupCalls
    /\ \E name \in LoggerNames, log_file \in LogFiles, lvl \in LevelArgs \ LevelNames :
          /\ before' = [name |-> name, level |-> level[name], handlers |-> handlers[name]]
          /\ setupCalls' = Append(setupCalls,
                 [name |-> name, log_file |-> log_file, level |-> lvl, raised |-> "ValueError"])
    /\ UNCHANGED <<level, handlers, setup, lastEmit>>

\* logger.debug / logger.info / logger.error on the logger of some name
Log ==
    /\ \E name \in LoggerNames, m \in LogMethods :
          lastEmit' = Emit(level, handlers, name, LevelNo(m))
    /\ UNCHANGED <<level, handlers, setupCalls, before, setup>>

\* setup_logger run by a thread, statement by statement: nothing in it takes
\* a lock around the test of line 21 and the addHandler calls of lines 38-39.

\* lines 17-18: logger = logging.getLogger(name); logger.setLevel(level)
SetupEnter(t) ==
    /\ setup[t].pc = "idle"
    /\ \E name \in LoggerNames, log_file \in LogFiles, lvl \in LevelArgs \cap LevelNames :
          /\ level' = SetLevel(level, name, lvl)
          /\ setup' = [setup EXCEPT ![t] =
                 [pc |-> "test", name |-> name, log_file |-> log_file, level |-> lvl]]
    /\ UNCHANGED <<handlers, setupCalls, before, lastEmit>>

\* line 21: if not logger.hasHandlers()
SetupTest(t) ==
    /\ setup[t].pc = "test"
    /\ setup' = [setup EXCEPT ![t].pc =
           IF ~HasHandlers(handlers, setup[t].name) THEN "addFile" ELSE "return"]
    /\ UNCHANGED <<level, handlers, setupCalls, before, lastEmit>>

\* lines 23-38: both handlers are made; logger.addHandler(file_handler)
SetupAddFile(t) ==
    /\ setup[t].pc = "addFile"
    /\ handlers' = [handlers EXCEPT ![setup[t].name] =
           Append(@, FileHandler(setup[t].log_file, setup[t].level))]
    /\ setup' = [setup EXCEPT ![t].pc = "addConsole"]
    /\ UNCHANGED <<level, setupCalls, before, lastEmit>>

\* line 39: logger.addHandler(console_handler)
SetupAddConsole(t) ==
    /\ setup[t].pc = "addConsole"
    /\ handlers' = [handlers EXCEPT ![setup[t].name] =
           Append(@, StreamHandler(setup[t].level))]
    /\ setup' = [setup EXCEPT ![t].pc = "return"]
    /\ UNCHANGED <<level, setupCalls, before, lastEmit>>

\* line 41: return logger
SetupReturn(t) ==
    /\ setup[t].pc = "return"
    /\ setup' = [setup EXCEPT ![t].pc = "done"]
    /\ UNCHANGED <<level, handlers, setupCalls, before, lastEmit>>

(***************************************************************************)
(*                            Specifications                               *)
(***************************************************************************)

\* The other components at rest while one is exercised.
RetryAtRest ==
    /\ max_retries = 3 /\ base_delay = 1 /\ max_delay = 60
    /\ pc = [t \in Threads |-> "idle"]
    /\ retries = [t \in Threads |-> 0]
    /\ args = [t \in Threads |-> None]
    /\ received = [t \in Threads |-> <<>>]
    /\ slept = [t \in Threads |-> <<>>]
    /\ warned = [t \in Threads |-> <<>>]
    /\ lastError = [t \in Threads |-> None]
    /\ lastReturn = [t \in Threads |-> None]
    /\ events = [t \in Threads |-> <<>>]
    /\ outcome = [t \in Threads |-> [kind |-> "running"]]

ConfigAtRest ==
    /\ env = <<>>
    /\ Config = LoadConfig(<<>>)
    /\ validated = <<>>

\* One call of the wrapped function, on the main thread.
InitSpecRetry == InitRetry /\ ConfigAtRest /\ InitLogger
NextRetry ==
    \/ Enter(MainThread) /\ UNCHANGED <<configVars, loggerVars>>
    \/ LoopTest(MainThread) /\ UNCHANGED <<configVars, loggerVars>>
    \/ FuncReturns(MainThread) /\ UNCHANGED <<configVars, loggerVars>>
    \/ FuncRaises(MainThread) /\ UNCHANGED <<configVars, loggerVars>>
    \/ Warn(MainThread) /\ UNCHANGED <<configVars, loggerVars>>
    \/ Sleep(MainThread) /\ UNCHANGED <<configVars, loggerVars>>
    \/ RaiseFinal(MainThread) /\ UNCHANGED <<configVars, loggerVars>>
SpecRetry == InitSpecRetry /\ [][NextRetry]_vars

\* The same call on a thread that keeps running: once entered, the wrapper
\* takes its next step (an invocation of the operation returns or raises, a
\* sleep ends).
WrapperRuns ==
    \/ LoopTest(MainThread) /\ UNCHANGED <<configVars, loggerVars>>
    \/ FuncReturns(MainThread) /\ UNCHANGED <<configVars, loggerVars>>
    \/ FuncRaises(MainThread) /\ UNCHANGED <<configVars, loggerVars>>
    \/ Warn(MainThread) /\ UNCHANGED <<configVars, loggerVars>>
    \/ Sleep(MainThread) /\ UNCHANGED <<configVars, loggerVars>>
    \/ RaiseFinal(MainThread) /\ UNCHANGED <<configVars, loggerVars>>
SpecRetryFair == InitSpecRetry /\ [][NextRetry]_vars /\ WF_vars(WrapperRuns)

\* Two threads call the same wrapped function; their steps interleave.
InitSpecRetryThreads == InitRetryThreads /\ ConfigAtRest /\ InitLogger
NextRetryThreads ==
    \/ \E t \in Threads : Enter(t) /\ UNCHANGED <<configVars, loggerVars>>
    \/ \E t \in Threads : LoopTest(t) /\ UNCHANGED <<configVars, loggerVars>>
    \/ \E t \in Threads : FuncReturns(t) /\ UNCHANGED <<configVars, loggerVars>>
    \/ \E t \in Threads : FuncRaises(t) /\ UNCHANGED <<configVars, loggerVars>>
    \/ \E t \in Threads : Warn(t) /\ UNCHANGED <<configVars, loggerVars>>
    \/ \E t \in Threads : Sleep(t) /\ UNCHANGED <<configVars, loggerVars>>
    \/ \E t \in Threads : RaiseFinal(t) /\ UNCHANGED <<configVars, loggerVars>>
SpecRetryThreads == InitSpecRetryThreads /\ [][NextRetryThreads]_vars

\* The import of config.py and the validate() calls after it.
InitSpecConfig == RetryAtRest /\ InitConfig /\ InitLogger
NextConfig == Validate /\ UNCHANGED <<retryVars, loggerVars>>
SpecConfig == InitSpecConfig /\ [][NextConfig]_vars

\* Sequential setup_logger and log calls.
InitSpecLogger == RetryAtRest /\ ConfigAtRest /\ InitLogger
NextLogger ==
    \/ SetupLogger /\ UNCHANGED <<retryVars, configVars>>
    \/ SetupLoggerBadLevel /\ UNCHANGED <<retryVars, configVars>>
    \/ Log /\ UNCHANGED <<retryVars, configVars>>
SpecLogger == InitSpecLogger /\ [][NextLogger]_vars

\* One setup_logger call on each thread, interleaved statement by statement.
InitSpecLoggerThreads == RetryAtRest /\ ConfigAtRest /\ InitLogger
NextLoggerThreads ==
    \/ \E t \in Threads : SetupEnter(t) /\ UNCHANGED <<retryVars, configVars>>
    \/ \E t \in Threads : SetupTest(t) /\ UNCHANGED <<retryVars, configVars>>
    \/ \E t \in Threads : SetupAddFile(t) /\ UNCHANGED <<retryVars, configVars>>
    \/ \E t \in Threads : SetupAddConsole(t) /\ UNCHANGED <<retryVars, configVars>>
    \/ \E t \in Threads : SetupReturn(t) /\ UNCHANGED <<retryVars, configVars>>
SpecLoggerThreads == InitSpecLoggerThreads /\ [][NextLoggerThreads]_vars

(***************************************************************************)
(*                     Properties of the retry wrapper                     *)
(***************************************************************************)

\* The events of a call without the warnings: invocations, sleeps, the raise.
Transitions(t) == SelectSeq(events[t], LAMBDA e : e # "warn")

\* The final exception names the operation and the number n.
NamesOperationAnd(ex, n) ==
    /\ ex.type = "Exception"
    /\ Len(ex.message) = 5
    /\ ex.message[2] = FuncName
    /\ ex.message[4] = n

\* C1: with max_retries = 3 and an operation that fails on every invocation,
\* the call ends with exactly 3 invocations, exactly 2 sleeps and a terminal
\* failure that names the operation and "3".  (A call whose position is
\* FAILED is one whose every invocation failed.)
C1_ThreeAttemptsTwoSleeps ==
    \A t \in Threads :
        (max_retries = 3 /\ pc[t] = "FAILED") =>
            /\ Len(received[t]) = 3
            /\ Len(slept[t]) = 2
            /\ outcome[t].kind = "raised"
            /\ NamesOperationAnd(outcome[t].exception, "3")

\* C2: with max_retries = 0 a finished call has invoked the operation exactly
\* once and never slept; it returned the operation's value or raised the
\* terminal failure.
C2_ZeroRetriesInvokesOnce ==
    \A t \in Threads :
        (max_retries = 0 /\ pc[t] \in {"SUCCEEDED", "FAILED"}) =>
            /\ Len(received[t]) = 1
            /\ Len(slept[t]) = 0
            /\ outcome[t].kind \in {"returned", "raised"}

\* C3: a call whose operation failed k times and then succeeded, k <
\* max_retries, returns the value of the successful invocation after k + 1
\* invocations and k sleeps, the i-th (from 0) of min(base_delay * 2^i,
\* max_delay); and a success always ends the call this way.
C3_SucceedsAfterKFailures ==
    \A t \in Threads :
        /\ (lastReturn[t] # None) = (pc[t] = "SUCCEEDED")
        /\ pc[t] = "SUCCEEDED" =>
              LET k == Cardinality({i \in 1 .. Len(events[t]) : events[t][i] = "fail"})
              IN  /\ k < max_retries
                  /\ outcome[t] = [kind |-> "returned", value |-> lastReturn[t]]
                  /\ Len(received[t]) = k + 1
                  /\ Len(slept[t]) = k
                  /\ \A i \in 0 .. (k - 1) :
                        slept[t][i + 1] = Min(base_delay * (2 ^ i), max_delay)

\* C3 witness: base_delay = 1, max_delay = 10, max_retries = 5, four failures
\* and then a success: the sleeps were 1, 2, 4, 8.
C3_Witness ==
    \E t \in Threads :
        /\ max_retries = 5 /\ base_delay = 1 /\ max_delay = 10
        /\ pc[t] = "SUCCEEDED"
        /\ Len(received[t]) = 5
        /\ slept[t] = <<1, 2, 4, 8>>

\* C4: the sleep performed while the counter is n, 0 <= n < max_retries, lasts
\* min(base_delay * 2^n, max_delay) (the n-th sleep, from 0, is the one taken
\* while retries = n: the counter always equals the number of sleeps taken);
\* no sleep exceeds max_delay and the sleeps of a call never decrease.
C4_DelayFormula ==
    \A t \in Threads :
        /\ pc[t] # "idle" => retries[t] = Len(slept[t])
        /\ \A i \in 1 .. Len(slept[t]) :
              LET n == i - 1
              IN  /\ 0 <= n /\ n < max_retries
                  /\ slept[t][i] = Min(base_delay * (2 ^ n), max_delay)
                  /\ slept[t][i] <= max_delay
                  /\ i > 1 => slept[t][i - 1] <= slept[t][i]

\* C4 witness: a call that slept three times, the first below the cap and the
\* third at the cap.
C4_Witness ==
    \E t \in Threads :
        /\ Len(slept[t]) >= 3
        /\ slept[t][1] < max_delay
        /\ slept[t][1] < slept[t][2]
        /\ slept[t][3] = max_delay
        /\ base_delay * 4 > max_delay

\* C5: every sleep is followed by another invocation of the operation, and
\* the terminal failure comes directly after a failed invocation, never
\* directly after a sleep (stated for max_retries >= 1, where the operation
\* is invoked at all).
C5_FailedDirectlyFromAttempt ==
    \A t \in Threads :
        max_retries >= 1 =>
            LET tr == Transitions(t)
            IN  \A i \in 1 .. Len(tr) :
                   /\ (tr[i] = "sleep" /\ i < Len(tr)) => tr[i + 1] \in {"ok", "fail"}
                   /\ tr[i] = "raise" => (i > 1 /\ tr[i - 1] = "fail")

\* C6 as claimed: the terminal failure identifies the operation, max_retries
\* and the error raised by the last invocation of the operation.
C6_FailureCarriesFinalError ==
    \A t \in Threads :
        pc[t] = "FAILED" =>
            LET ex == outcome[t].exception
            IN  /\ NamesOperationAnd(ex, ToString(max_retries))
                /\ lastError[t] # None =>
                      \/ ex.context = lastError[t]
                      \/ \E i \in 1 .. Len(ex.message) : ex.message[i] = lastError[t]

\* C6 amended: the terminal failure identifies the operation and max_retries;
\* it carries no underlying error, neither chained nor in its message: the
\* error of the last invocation is only in the last warning logged.
C6_FailureNamesOperationAndCount ==
    \A t \in Threads :
        pc[t] = "FAILED" =>
            LET ex == outcome[t].exception
            IN  /\ outcome[t].kind = "raised"
                /\ NamesOperationAnd(ex, ToString(max_retries))
                /\ ex.context = None
                /\ \A i \in 1 .. Len(ex.message) : ex.message[i] \notin Errors
                /\ lastError[t] # None =>
                      /\ warned[t] # <<>>
                      /\ warned[t][Len(warned[t])] = WarningMessage(lastError[t])

\* C6 witness: a call that failed for good after the operation raised e2 last.
C6_Witness ==
    \E t \in Threads :
        /\ pc[t] = "FAILED"
        /\ max_retries = 2
        /\ Len(received[t]) = 2
        /\ lastError[t] = "e2"

(***************************************************************************)
(*                        Properties of Config.validate                    *)
(***************************************************************************)

\* The environment sets the variable name to the string value.
EnvIs(name, value) == name \in DOMAIN env /\ env[name] = value

\* C7: validate() raises whenever RETRY_COUNT < 0, RETRY_DELAY < 0 or
\* POLL_INTERVAL <= 0 (so with RETRY_COUNT=-1 and with POLL_INTERVAL=0 in the
\* environment), and returns normally when no variable is set and every
\* setting has its default.
C7_ValidateRejectsBadNumbers ==
    \A i \in 1 .. Len(validated) :
        /\ Config.RETRY_COUNT < 0 => validated[i].raised = "ValueError"
        /\ Config.RETRY_DELAY < 0 => validated[i].raised = "ValueError"
        /\ Config.POLL_INTERVAL <= 0 => validated[i].raised = "ValueError"
        /\ EnvIs("RETRY_COUNT", <<"-", "1">>) => validated[i].raised = "ValueError"
        /\ EnvIs("POLL_INTERVAL", <<"0">>) => validated[i].raised = "ValueError"
        /\ DOMAIN env = {} => validated[i].raised = None

\* C7 witness: POLL_INTERVAL=0 alone in the environment, and validate() has
\* raised naming POLL_INTERVAL.
C7_Witness ==
    /\ DOMAIN env = {"POLL_INTERVAL"}
    /\ env["POLL_INTERVAL"] = <<"0">>
    /\ Config.POLL_INTERVAL = 0
    /\ Len(validated) >= 1
    /\ validated[1] = ValueError("POLL_INTERVAL", " must be a positive integer.")

\* The settings among API key, symbols and server URL that are empty; the
\* symbols are empty when the list is, or when STOCK_SYMBOLS is set to "".
EmptySettings ==
    {s \in {"ALPHA_VANTAGE_API_KEY", "STOCK_SYMBOLS", "SERVER_URL"} : Len(Config[s]) = 0}
    \cup (IF EnvIs("STOCK_SYMBOLS", <<>>) THEN {"STOCK_SYMBOLS"} ELSE {})

\* The numeric settings that are out of range.
BadNumbers ==
    (IF Config.RETRY_COUNT < 0 THEN {"RETRY_COUNT"} ELSE {})
    \cup (IF Config.RETRY_DELAY < 0 THEN {"RETRY_DELAY"} ELSE {})
    \cup (IF Config.POLL_INTERVAL <= 0 THEN {"POLL_INTERVAL"} ELSE {})

\* C8: validate() raises, naming an offending setting, whenever the API key,
\* the symbol set (STOCK_SYMBOLS="" included) or the server URL is empty.
C8_EmptySettingsRejected ==
    \A i \in 1 .. Len(validated) :
        EmptySettings # {} =>
            /\ validated[i].raised = "ValueError"
            /\ validated[i].message[1] \in EmptySettings \cup BadNumbers

(***************************************************************************)
(*                        Properties of setup_logger                       *)
(***************************************************************************)

\* The setup_logger calls that returned.
ReturnedCalls == SelectSeq(setupCalls, LAMBDA c : c.raised = None)

\* How many handlers of the sequence hs are of the kind k.
CountKind(hs, k) == Cardinality({i \in 1 .. Len(hs) : hs[i].kind = k})

\* C9: when every setup_logger call so far had the same name and file path
\* (and one at least returned), the logger of that name holds exactly one
\* file handler, on that path, and one console handler; a log call on it
\* writes at most one line to the file, and exactly one to the file and one
\* to the console when the logger and the handlers admit its level.
C9_OneFileOneConsole ==
    (/\ ReturnedCalls # <<>>
     /\ \A i \in 1 .. Len(setupCalls) :
           /\ setupCalls[i].name = setupCalls[1].name
           /\ setupCalls[i].log_file = setupCalls[1].log_file)
    => LET n == setupCalls[1].name
           f == setupCalls[1].log_file
           hs == handlers[n]
       IN  /\ Len(hs) = 2
           /\ CountKind(hs, "FileHandler") = 1
           /\ CountKind(hs, "StreamHandler") = 1
           /\ \A i \in 1 .. Len(hs) : hs[i].kind = "FileHandler" => hs[i].filename = f
           /\ (lastEmit.logged /\ lastEmit.logger = n /\ lastEmit.after >= 1) =>
                 /\ lastEmit.lines[f] <= 1
                 /\ \A g \in LogFiles \ {f} : lastEmit.lines[g] = 0
                 /\ (lastEmit.enabled /\ \A i \in 1 .. Len(hs) : lastEmit.levelno >= hs[i].level)
                       => (lastEmit.lines[f] = 1 /\ lastEmit.lines[Stderr] = 1)

\* C9 witness: two setup_logger calls with the same name and path returned,
\* and a log call made after them wrote its line to the file.
C9_Witness ==
    /\ Len(setupCalls) = 2
    /\ Len(ReturnedCalls) = 2
    /\ setupCalls[1].name = setupCalls[2].name
    /\ setupCalls[1].log_file = setupCalls[2].log_file
    /\ lastEmit.logged
    /\ lastEmit.after = 2
    /\ lastEmit.logger = setupCalls[1].name
    /\ lastEmit.lines[setupCalls[1].log_file] = 1

\* C10: a setup_logger call for a logger that already has handlers of its own
\* leaves the logger's level and its handlers as they were before the call.
C10_ConfiguredLoggerUnchanged ==
    (setupCalls # <<>> /\ before.handlers # <<>>) =>
        /\ level[before.name] = before.level
        /\ handlers[before.name] = before.handlers

\* The last setup_logger call (its arguments and whether it raised).
LastCall == setupCalls[Len(setupCalls)]

\* C11: when the logger of a name has no handlers of its own, a setup_logger
\* call for it that returns leaves it with a file handler on log_file and a
\* console handler, both at the level given, whatever handlers its ancestors
\* have.
C11_BareLoggerGetsBothHandlers ==
    (setupCalls # <<>> /\ LastCall.raised = None /\ before.handlers = <<>>) =>
        handlers[before.name] =
            <<FileHandler(LastCall.log_file, LastCall.level), StreamHandler(LastCall.level)>>

\* C12: when two threads have each finished a first setup_logger call for the
\* same name, the logger of that name holds exactly one file handler and one
\* console handler, however their statements interleaved.
C12_NoDuplicateUnderInterleaving ==
    \A t \in Threads, u \in Threads :
        (/\ t # u
         /\ setup[t].pc = "done" /\ setup[u].pc = "done"
         /\ setup[t].name = setup[u].name)
        => /\ CountKind(handlers[setup[t].name], "FileHandler") = 1
           /\ CountKind(handlers[setup[t].name], "StreamHandler") = 1

\* A bound on a count: "at most n" of something is none of it when n < 0.
AtMost(n) == IF n < 0 THEN 0 ELSE n

\* C13: a call that was entered ends in SUCCEEDED or FAILED, and at no time
\* has it invoked the operation more than max_retries + 1 times or slept
\* more than max_retries times.
C13_Terminates ==
    /\ [](\A t \in Threads :
             /\ Len(received[t]) <= AtMost(max_retries + 1)
             /\ Len(slept[t]) <= AtMost(max_retries))
    /\ \A t \in Threads :
          (pc[t] # "idle") ~> (pc[t] \in {"SUCCEEDED", "FAILED"})

\* C13 witness: a call with max_retries = 5 that ended FAILED after five sleeps.
C13_Witness ==
    \E t \in Threads :
        /\ max_retries = 5
        /\ pc[t] = "FAILED"
        /\ Len(slept[t]) = 5
        /\ Len(received[t]) = 5

\* C14: with a negative max_retries a call never invokes the operation, never
\* warns and never sleeps: from the loop test it goes straight to the
\* terminal failure.
C14_NegativeBudgetSkipsLoop ==
    max_retries < 0 =>
        \A t \in Threads :
            /\ received[t] = <<>>
            /\ slept[t] = <<>>
            /\ warned[t] = <<>>
            /\ pc[t] \in {"idle", "while", "FAILED"}
            /\ pc[t] = "FAILED" =>
                  /\ events[t] = <<"raise">>
                  /\ outcome[t] = [kind |-> "raised", exception |-> FinalException]
            /\ pc[t] # "FAILED" => events[t] = <<>>

\* C14 witness: a call with max_retries = -1 that has raised the terminal failure.
C14_Witness ==
    \E t \in Threads :
        /\ max_retries = -1
        /\ pc[t] = "FAILED"
        /\ outcome[t].kind = "raised"

\* What belongs to the call of thread t.
CallState(t) ==
    <<pc[t], retries[t], args[t], received[t], slept[t], warned[t], lastError[t],
      lastReturn[t], events[t], outcome[t]>>

\* The results the operation gave the call of thread t, in order.
Results(t) == SelectSeq(events[t], LAMBDA e : e \in {"ok", "fail"})

\* The sleeps of a call that runs alone and has slept n times.
SoloSleeps(n) == [i \in 1 .. n |-> Min(base_delay * (2 ^ (i - 1)), max_delay)]

\* What a call that runs alone has done once it has ended, given the
\* results the operation gave it.
EndsAsAlone(t) ==
    LET rs == Results(t)
        k == Cardinality({i \in 1 .. Len(rs) : rs[i] = "fail"})
    IN  /\ Len(received[t]) = Len(rs)
        /\ slept[t] = SoloSleeps(k)
        /\ IF Len(rs) > 0 /\ rs[Len(rs)] = "ok"
           THEN /\ pc[t] = "SUCCEEDED"
                /\ Len(rs) = k + 1
                /\ outcome[t] = [kind |-> "returned", value |-> lastReturn[t]]
           ELSE /\ pc[t] = "FAILED"
                /\ k = AtMost(max_retries)
                /\ outcome[t].kind = "raised"
                /\ NamesOperationAnd(outcome[t].exception, ToString(max_retries))

\* C15: with two threads calling the wrapped function at once, a step of one
\* call changes nothing that belongs to the other; the counter of a call
\* counts its own sleeps only; and a call that has ended has made the
\* invocations, taken the sleeps and reached the outcome of a call running
\* alone with the same results of the operation.
C15_CallsAreIndependent ==
    /\ [](\A t \in Threads :
             /\ pc[t] # "idle" => retries[t] = Len(slept[t])
             /\ pc[t] \in {"SUCCEEDED", "FAILED"} => EndsAsAlone(t))
    /\ [][\A t \in Threads : pc'[t] = pc[t] => CallState(t)' = CallState(t)]_vars

\* C15 witness: with max_retries = 2 one call has failed for good after two
\* sleeps and the other has succeeded after one failure.
C15_Witness ==
    \E t \in Threads, u \in Threads :
        /\ t # u
        /\ max_retries = 2
        /\ pc[t] = "FAILED" /\ Len(slept[t]) = 2
        /\ pc[u] = "SUCCEEDED" /\ Len(slept[u]) = 1

\* C16: every invocation of the operation receives the arguments the caller
\* supplied; a successful invocation is the last thing the call does (no
\* invocation, warning or sleep follows it) and its value is what the call
\* returns.
C16_ArgumentsForwardedSuccessReturned ==
    \A t \in Threads :
        /\ \A i \in 1 .. Len(received[t]) : received[t][i] = args[t]
        /\ \A i \in 1 .. Len(events[t]) :
              events[t][i] = "ok" =>
                  /\ i = Len(events[t])
                  /\ pc[t] = "SUCCEEDED"
                  /\ outcome[t] = [kind |-> "returned", value |-> lastReturn[t]]
        /\ pc[t] = "SUCCEEDED" =>
              /\ Len(warned[t]) = Len(received[t]) - 1
              /\ Len(slept[t]) = Len(received[t]) - 1

\* C16 witness: a call with the arguments a2 that returned v2 from its third
\* invocation.
C16_Witness ==
    \E t \in Threads :
        /\ pc[t] = "SUCCEEDED"
        /\ args[t] = "a2"
        /\ received[t] = <<"a2", "a2", "a2">>
        /\ outcome[t] = [kind |-> "returned", value |-> "v2"]

\* C17: validate() changes no setting, whether it returns or raises: Config
\* and the environment are after every call what they were before it, and
\* all the validate() calls of a run have the same outcome.
C17_ValidateHasNoSideEffects ==
    /\ [][Config' = Config /\ env' = env]_vars
    /\ [](/\ Config = LoadConfig(env)
          /\ \A i \in 1 .. Len(validated), j \in 1 .. Len(validated) :
                validated[i] = validated[j])

\* C17 witness: validate() was called twice on a Config with RETRY_COUNT = -1
\* and raised both times.
C17_Witness ==
    /\ Len(validated) = 2
    /\ Config.RETRY_COUNT = -1
    /\ validated[1].raised = "ValueError"
    /\ validated[2].raised = "ValueError"

====
